---- MODULE Spec2Model ----
(***************************************************************************)
(* Session store, LLM gateway and request handler of the ApoorvaTron RAG   *)
(* chatbot (gemini_service.py, rag_system.py, app.py).                     *)
(*                                                                         *)
(* Worker threads run the /chat handler (app.chat -> ask_question ->       *)
(* call_gemini_api -> store_conversation) or an explicit cleanup_session;  *)
(* one daemon thread runs the expiry sweep.  Every statement that reads or *)
(* writes shared state is one step, so the interleavings of the Python     *)
(* threads are the interleavings of the actions below.  The clock counts   *)
(* whole hours.  The retrieval router (_smart_workflow_retrieve) is a pure *)
(* function of the question text; texts are sequences of characters.       *)
(***************************************************************************)
EXTENDS Integers, Sequences, FiniteSets, TLC

\* ------------------------------------------------------------------ bounds
MaxTime == 3
MaxRequests == 2
MaxWords == 3
MaxChunks == 7

\* --------------------------------------------------------------- constants
SessionTimeout == 2

Sessions == {"s1", "s2"}
Workers == {"t1", "t2"}
Sweeper == "sweep"
Threads == Workers \cup {Sweeper}
\* The n-th request's question text, and the gateway's reply text to it
Question(n) == <<"question", n>>
Answer(q) == <<"answer to", q[2]>>
Outcomes == {"ok", "nocand", "badfmt", "neterr", "exc"}

Free == "free"
None == "none"
NoText == <<>>
NoIndex == 0
NoSearch == [query |-> NoText, k |-> 0, n |-> 0, results |-> 0]
\* The two source documents load_and_chunk_documents reads
AllDocuments == {"resume", "behavioral_qa"}

VARIABLES
    conversation_store,      \* session id -> sequence of turns
    system_instructions,     \* session id -> instruction snapshot
    session_last_activity,   \* session id -> time of last activity
    session_lock,            \* Free, or the thread holding _session_lock
    api_call_count,
    successful_calls,
    failed_calls,
    GEMINI_API_KEY,          \* TRUE iff a credential is configured
    SYSTEM_PROMPT,           \* the live global instruction template
    now,                     \* datetime.now(), in hours
    pc,                      \* thread -> position in its code
    loc,                     \* thread -> its local variables
    expired_sessions,        \* the sweep's local list
    posts,                   \* requests.post calls made so far
    nreq,                    \* chat requests started so far
    firstCalls,              \* session -> calls that computed is_first_call since its last eviction
    evicted,                 \* session -> cleanup returned and no ask_question read it since
    served,                  \* session -> chat requests completed since its last eviction
    vectorstore,             \* rag_chatbot.vectorstore: NoIndex, or the n-th Chroma object assigned
    question,                \* the text last given to _smart_workflow_retrieve
    search,                  \* the similarity search it issued
    documents                \* the files of data/ that can be read

vars == <<conversation_store, system_instructions, session_last_activity,
          session_lock, api_call_count, successful_calls, failed_calls,
          GEMINI_API_KEY, SYSTEM_PROMPT, now, pc, loc, expired_sessions,
          posts, nreq, firstCalls, evicted, served, vectorstore, question, search,
          documents>>

store == <<conversation_store, system_instructions, session_last_activity>>
stats == <<api_call_count, successful_calls, failed_calls>>
env == <<GEMINI_API_KEY, SYSTEM_PROMPT, now>>
ghost == <<firstCalls, evicted, served>>
router == <<question, search>>
index == <<vectorstore, router, documents>>

\* ---------------------------------------------------------------- helpers
Put(f, k, v) == [x \in (DOMAIN f) \cup {k} |-> IF x = k THEN v ELSE f[x]]
Del(f, k) == [x \in (DOMAIN f) \ {k} |-> f[x]]
EmptyMap == [x \in {} |-> None]

NoPayload == [kind |-> None, system_instruction |-> None, contents |-> <<>>]

NoLocals ==
    [sid |-> None, user_input |-> NoText, is_first_call |-> FALSE, tmp |-> 0,
     payload |-> NoPayload, outcome |-> None, answer |-> NoText, error |-> None,
     phase |-> None,
     \* bookkeeping: no other thread worked on the session during this request,
     \* the requests served when it started; no other call overlapped this one,
     \* the counters when it entered, the += 1 statements it has executed
     solo |-> FALSE, prev |-> <<>>,
     alone |-> FALSE, entry |-> <<0, 0, 0>>, incs |-> <<0, 0, 0>>,
     \* ask_question was called directly, not by chat; its source list; the
     \* request arrived after the index had been built
     direct |-> FALSE, sources |-> <<>>, late |-> FALSE,
     \* chat's chunks, between load_and_chunk_documents and create_vectorstore
     chunks |-> <<>>]

ErrNotInitialized == "Vector store not initialized. Please set up the system first."
ErrNoKey == "API key is not configured."
ErrNoCandidates == "No candidates in Gemini API response"
ErrFormat == "Unexpected response format from Gemini API"
ErrNetwork == "Sorry, I encountered a network error. Could you please repeat that?"
ErrUnexpected == "Sorry, I received an unexpected response. Could you please try again?"

ErrorOf(outcome) ==
    CASE outcome = "nocand" -> ErrNoCandidates
      [] outcome = "badfmt" -> ErrFormat
      [] outcome = "neterr" -> ErrNetwork
      [] outcome = "exc" -> ErrUnexpected
      [] OTHER -> None

\* _format_user_message_with_context: the question wrapped with the context
\* block and the grounding instructions
FormatUserMessage(user_input) == <<"CONTEXT INFORMATION", user_input, "INSTRUCTIONS">>

\* get_conversation_history: the stored turns without their timestamps
get_conversation_history(s) ==
    IF s \notin DOMAIN conversation_store
    THEN <<>>
    ELSE [i \in 1..Len(conversation_store[s]) |->
            [role |-> conversation_store[s][i].role,
             content |-> conversation_store[s][i].content]]

\* Positions inside call_gemini_api, after the credential check
CallPcs == {"touch", "cnt_r", "cnt_w", "build", "post", "succ_w", "fail_w"}

\* Threads currently working on session s
OnSession(s) == {u \in Threads : pc[u] \notin {"idle", "sleep"} /\ loc[u].sid = s}

\* GeminiAPIService.__init__ (the sweep thread is started; the pool is idle)
Constructed ==
    /\ conversation_store = EmptyMap
    /\ system_instructions = EmptyMap
    /\ session_last_activity = EmptyMap
    /\ session_lock = Free
    /\ api_call_count = 0
    /\ successful_calls = 0
    /\ failed_calls = 0
    /\ GEMINI_API_KEY \in BOOLEAN
    /\ SYSTEM_PROMPT = "v1"
    /\ now = 0
    /\ pc = [t \in Threads |-> IF t = Sweeper THEN "sleep" ELSE "idle"]
    /\ loc = [t \in Threads |-> NoLocals]
    /\ expired_sessions = {}
    /\ posts = 0
    /\ nreq = 0
    /\ firstCalls = [s \in Sessions |-> 0]
    /\ evicted = [s \in Sessions |-> FALSE]
    /\ served = [s \in Sessions |-> <<>>]

\* PersonalRAGChatbot.__init__: self.vectorstore = None
Init ==
    /\ Constructed
    /\ vectorstore = NoIndex
    /\ question = NoText
    /\ search = NoSearch
    /\ documents = AllDocuments

\* ----------------------------------------------------------- environment
\* The clock advances
Tick ==
    /\ now < MaxTime
    /\ now' = now + 1
    /\ UNCHANGED <<index, store, session_lock, stats, GEMINI_API_KEY, SYSTEM_PROMPT,
                   pc, loc, expired_sessions, posts, nreq, ghost>>

\* The global instruction template is altered
ChangeTemplate ==
    /\ SYSTEM_PROMPT = "v1"
    /\ SYSTEM_PROMPT' = "v2"
    /\ UNCHANGED <<index, store, session_lock, stats, GEMINI_API_KEY, now,
                   pc, loc, expired_sessions, posts, nreq, ghost>>

\* ------------------------------------------------------------ chat request
\* The pool thread that takes the next call: the first idle one
FreeWorker == IF pc["t1"] = "idle" THEN "t1" ELSE "t2"

\* app.chat reaches rag_chatbot.ask_question(user_input, userid)
ChatStart(t, s) ==
    /\ pc[t] = "idle"
    /\ t = FreeWorker
    /\ nreq < MaxRequests
    /\ nreq' = nreq + 1
    /\ pc' = [pc EXCEPT ![t] = "init"]
    /\ loc' = [u \in Threads |->
                 IF u = t
                 THEN [NoLocals EXCEPT !.sid = s, !.user_input = Question(nreq + 1),
                                       !.solo = (OnSession(s) = {}), !.prev = served[s],
                                       !.late = (vectorstore # NoIndex)]
                 ELSE IF u \in OnSession(s) THEN [loc[u] EXCEPT !.solo = FALSE]
                 ELSE loc[u]]
    /\ UNCHANGED <<index, store, session_lock, stats, env, expired_sessions, posts, ghost>>

\* rag_chatbot.ask_question(question, session_id) is called directly
AskStart(t, s) ==
    /\ pc[t] = "idle"
    /\ t = FreeWorker
    /\ nreq < MaxRequests
    /\ nreq' = nreq + 1
    /\ pc' = [pc EXCEPT ![t] = "retr"]
    /\ loc' = [u \in Threads |->
                 IF u = t
                 THEN [NoLocals EXCEPT !.sid = s, !.user_input = Question(nreq + 1),
                                       !.direct = TRUE, !.late = (vectorstore # NoIndex)]
                 ELSE IF u \in OnSession(s) THEN [loc[u] EXCEPT !.solo = FALSE]
                 ELSE loc[u]]
    /\ UNCHANGED <<index, store, session_lock, stats, env, expired_sessions, posts, ghost>>

\* chat answers 500 from its initialization section: ask_question is not
\* reached and nothing is stored
Reject(t) ==
    /\ pc' = [pc EXCEPT ![t] = "idle"]
    /\ loc' = [loc EXCEPT ![t] = NoLocals]

\* A file of data/ is removed or made unreadable, or put back
RemoveDocument(d) ==
    /\ d \in documents
    /\ documents' = documents \ {d}
    /\ UNCHANGED <<vectorstore, router, store, session_lock, stats, env, pc, loc,
                   expired_sessions, posts, nreq, ghost>>

RestoreDocument(d) ==
    /\ d \notin documents
    /\ documents' = documents \cup {d}
    /\ UNCHANGED <<vectorstore, router, store, session_lock, stats, env, pc, loc,
                   expired_sessions, posts, nreq, ghost>>

\* load_and_chunk_documents keeping the chunks of the documents it could read
load_and_chunk_documents_partial(readable) ==
    (IF "resume" \in readable THEN <<"resume">> ELSE <<>>)
        \o (IF "behavioral_qa" \in readable THEN <<"behavioral_qa">> ELSE <<>>)

\* load_and_chunk_documents: both files are read inside one try and the texts
\* split into chunks (named here by the document they come from); any
\* exception returns []
load_and_chunk_documents(readable) ==
    IF AllDocuments \subseteq readable
    THEN <<"resume", "behavioral_qa">>
    ELSE <<>>

\* InitCheck with the test of rag_chatbot.vectorstore left out: every request
\* loads the documents and builds
InitCheckAlways(t) ==
    /\ pc[t] = "init"
    /\ \E readable \in SUBSET documents :
          /\ loc' = [loc EXCEPT ![t].chunks = load_and_chunk_documents(readable)]
          /\ pc' = [pc EXCEPT ![t] = "chunks"]
    /\ UNCHANGED <<index, store, session_lock, stats, env, expired_sessions, posts, nreq, ghost>>

\* chat: if rag_chatbot.vectorstore is None: chunks = load_and_chunk_documents()
\* (a read of a file that is there can fail as well)
InitCheck(t) ==
    /\ pc[t] = "init"
    /\ IF vectorstore # NoIndex
       THEN /\ pc' = [pc EXCEPT ![t] = "retr"]
            /\ UNCHANGED loc
       ELSE \E readable \in SUBSET documents :
               /\ loc' = [loc EXCEPT ![t].chunks = load_and_chunk_documents(readable)]
               /\ pc' = [pc EXCEPT ![t] = "chunks"]
    /\ UNCHANGED <<index, store, session_lock, stats, env, expired_sessions, posts, nreq, ghost>>

\* chat: if chunks: create_vectorstore(chunks) is entered; else the request
\* ends with "Failed to load documents"
CheckChunks(t) ==
    /\ pc[t] = "chunks"
    /\ IF loc[t].chunks # <<>>
       THEN /\ pc' = [pc EXCEPT ![t] = "create"]
            /\ UNCHANGED loc
       ELSE Reject(t)
    /\ UNCHANGED <<index, store, session_lock, stats, env, expired_sessions, posts, nreq, ghost>>

\* create_vectorstore: the embeddings are there or reloaded, the persisted
\* store is opened or a new one is made from the chunks, and the new object is
\* assigned to self.vectorstore; on any failure it returns False and chat
\* answers 500
CreateVectorstore(t) ==
    /\ pc[t] = "create"
    /\ \E success \in BOOLEAN :
          IF success
          THEN /\ vectorstore' = vectorstore + 1
               /\ pc' = [pc EXCEPT ![t] = "retr"]
               /\ loc' = [loc EXCEPT ![t].chunks = <<>>]
          ELSE /\ Reject(t)
               /\ UNCHANGED vectorstore
    /\ UNCHANGED <<router, documents, store, session_lock, stats, env, expired_sessions, posts, nreq, ghost>>

\* Where ask_question returns to: chat goes on to its own store_conversation
ReturnTo(t) == IF loc[t].direct THEN "ret" ELSE "st_chk"

\* Retrieve with the test of self.vectorstore left out: the retrieval fails on
\* the missing index and the except returns its message
RetrieveUnchecked(t) ==
    /\ pc[t] = "retr"
    /\ \E found \in BOOLEAN :
          IF found /\ vectorstore # NoIndex
          THEN /\ loc' = [loc EXCEPT ![t].sources = <<"excerpts">>]
               /\ pc' = [pc EXCEPT ![t] = "hist"]
               /\ UNCHANGED evicted
          ELSE /\ loc' = [loc EXCEPT ![t].answer = <<"Error getting answer: ", "retrieval">>,
                                     ![t].error = "retrieval",
                                     ![t].phase = "chat"]
               /\ pc' = [pc EXCEPT ![t] = ReturnTo(t)]
               /\ evicted' = [evicted EXCEPT ![loc[t].sid] = FALSE]
    /\ UNCHANGED <<index, store, session_lock, stats, env, expired_sessions, posts, nreq,
                   firstCalls, served>>

\* ask_question: if not self.vectorstore: return the not-initialized message;
\* docs = self._smart_workflow_retrieve(question), whose exception the except
\* turns into the return of f"Error getting answer: {e}", []
Retrieve(t) ==
    /\ pc[t] = "retr"
    /\ IF vectorstore = NoIndex
       THEN /\ loc' = [loc EXCEPT ![t].answer = <<ErrNotInitialized>>,
                                  ![t].error = ErrNotInitialized,
                                  ![t].phase = "chat"]
            /\ pc' = [pc EXCEPT ![t] = ReturnTo(t)]
            /\ evicted' = [evicted EXCEPT ![loc[t].sid] = FALSE]
       ELSE \E found \in BOOLEAN :
               IF found
               THEN /\ loc' = [loc EXCEPT ![t].sources = <<"excerpts">>]
                    /\ pc' = [pc EXCEPT ![t] = "hist"]
                    /\ UNCHANGED evicted
               ELSE /\ loc' = [loc EXCEPT ![t].answer = <<"Error getting answer: ", "retrieval">>,
                                          ![t].error = "retrieval",
                                          ![t].phase = "chat"]
                    /\ pc' = [pc EXCEPT ![t] = ReturnTo(t)]
                    /\ evicted' = [evicted EXCEPT ![loc[t].sid] = FALSE]
    /\ UNCHANGED <<index, store, session_lock, stats, env, expired_sessions, posts, nreq,
                   firstCalls, served>>

\* A direct call of ask_question has returned its pair to the caller
AskDone(t) ==
    /\ pc[t] = "ret"
    /\ pc' = [pc EXCEPT ![t] = "idle"]
    /\ loc' = [loc EXCEPT ![t] = NoLocals]
    /\ UNCHANGED <<index, store, session_lock, stats, env, expired_sessions, posts, nreq, ghost>>

\* GetHistory with call_gemini_api's credential check left out
GetHistoryNoKeyCheck(t) ==
    /\ pc[t] = "hist"
    /\ LET s == loc[t].sid
           first == Len(get_conversation_history(s)) = 0
       IN /\ firstCalls' = [firstCalls EXCEPT ![s] = IF first THEN @ + 1 ELSE @]
          /\ evicted' = [evicted EXCEPT ![s] = FALSE]
          /\ loc' = [loc EXCEPT ![t].is_first_call = first]
          /\ pc' = [pc EXCEPT ![t] = "touch"]
    /\ UNCHANGED <<index, store, session_lock, stats, env, expired_sessions, posts, nreq, served>>

\* ask_question: conversation_history = get_conversation_history(session_id);
\* is_first_call = len(conversation_history) == 0; call_gemini_api is entered:
\* if not self.GEMINI_API_KEY: return None, "API key is not configured.", on
\* which ask_question returns f"Error: {error}", [] to chat
GetHistory(t) ==
    /\ pc[t] = "hist"
    /\ LET s == loc[t].sid
           first == Len(get_conversation_history(s)) = 0
       IN /\ firstCalls' = [firstCalls EXCEPT ![s] = IF first THEN @ + 1 ELSE @]
          /\ evicted' = [evicted EXCEPT ![s] = FALSE]
          /\ IF ~GEMINI_API_KEY
             THEN /\ loc' = [loc EXCEPT ![t].is_first_call = first,
                                        ![t].error = ErrNoKey,
                                        ![t].answer = <<"Error: ", ErrNoKey>>,
                                        ![t].sources = <<>>,
                                        ![t].phase = "chat"]
                  /\ pc' = [pc EXCEPT ![t] = ReturnTo(t)]
             ELSE /\ loc' = [u \in Threads |->
                               IF u = t
                               THEN [loc[t] EXCEPT
                                       !.is_first_call = first,
                                       !.alone = (\A w \in Threads : pc[w] \notin CallPcs),
                                       !.entry = <<api_call_count, successful_calls,
                                                   failed_calls>>]
                               ELSE IF pc[u] \in CallPcs
                                    THEN [loc[u] EXCEPT !.alone = FALSE]
                                    ELSE loc[u]]
                  /\ pc' = [pc EXCEPT ![t] = "touch"]
    /\ UNCHANGED <<index, store, session_lock, stats, env, expired_sessions, posts, nreq, served>>

\* _update_session_activity: with self._session_lock:
\*     self._session_last_activity[session_id] = datetime.now()
UpdateSessionActivity(t) ==
    /\ pc[t] = "touch"
    /\ session_lock = Free
    /\ session_last_activity' = Put(session_last_activity, loc[t].sid, now)
    /\ pc' = [pc EXCEPT ![t] = "cnt_r"]
    /\ UNCHANGED <<index, conversation_store, system_instructions, session_lock, stats, env,
                   loc, expired_sessions, posts, nreq, ghost>>

\* self._api_call_count += 1 : the read of the attribute ...
CountRead(t) ==
    /\ pc[t] = "cnt_r"
    /\ loc' = [loc EXCEPT ![t].tmp = api_call_count]
    /\ pc' = [pc EXCEPT ![t] = "cnt_w"]
    /\ UNCHANGED <<index, store, session_lock, stats, env, expired_sessions, posts, nreq, ghost>>

\* ... and the write of the sum
CountWrite(t) ==
    /\ pc[t] = "cnt_w"
    /\ api_call_count' = loc[t].tmp + 1
    /\ loc' = [loc EXCEPT ![t].incs[1] = @ + 1, ![t].tmp = 0]
    /\ pc' = [pc EXCEPT ![t] = "build"]
    /\ UNCHANGED <<index, store, session_lock, successful_calls, failed_calls, env,
                   expired_sessions, posts, nreq, ghost>>

\* _build_first_call_payload
FirstCallPayload(s, user_input) ==
    [kind |-> "first",
     system_instruction |-> SYSTEM_PROMPT,
     contents |-> <<[role |-> "user", text |-> FormatUserMessage(user_input)]>>]

\* _build_conversation_payload
ConversationPayload(s, user_input) ==
    LET stored_history == IF s \in DOMAIN conversation_store
                          THEN conversation_store[s] ELSE <<>>
    IN [kind |-> "cont",
        system_instruction |-> IF s \in DOMAIN system_instructions
                               THEN system_instructions[s] ELSE SYSTEM_PROMPT,
        contents |-> [i \in 1..Len(stored_history) |->
                        [role |-> IF stored_history[i].role = "assistant"
                                  THEN "model" ELSE "user",
                         text |-> stored_history[i].content]]
                     \o <<[role |-> "user", text |-> FormatUserMessage(user_input)]>>]

\* call_gemini_api: the payload is built; the first-call builder records the snapshot
BuildPayload(t) ==
    /\ pc[t] = "build"
    /\ LET s == loc[t].sid
       IN IF loc[t].is_first_call
          THEN /\ system_instructions' = Put(system_instructions, s, SYSTEM_PROMPT)
               /\ loc' = [loc EXCEPT ![t].payload = FirstCallPayload(s, loc[t].user_input)]
          ELSE /\ UNCHANGED system_instructions
               /\ loc' = [loc EXCEPT ![t].payload = ConversationPayload(s, loc[t].user_input)]
    /\ pc' = [pc EXCEPT ![t] = "post"]
    /\ UNCHANGED <<index, conversation_store, session_last_activity, session_lock, stats,
                   env, expired_sessions, posts, nreq, ghost>>

\* The counter a call's outcome increments
OutcomeCounter(o) == IF o = "ok" THEN successful_calls ELSE failed_calls

\* requests.post(...), raise_for_status, response.json() and the extraction of
\* the text; then the read of the counter that the outcome's += 1 increments
PostRequest(t) ==
    /\ pc[t] = "post"
    /\ posts' = posts + 1
    /\ \E o \in Outcomes :
          /\ loc' = [loc EXCEPT ![t].outcome = o,
                                ![t].answer = IF o = "ok"
                                              THEN Answer(loc[t].user_input) ELSE NoText,
                                ![t].error = ErrorOf(o),
                                ![t].tmp = OutcomeCounter(o),
                                ![t].payload = NoPayload,
                                ![t].solo = FALSE,
                                ![t].prev = <<>>]
          /\ pc' = [pc EXCEPT ![t] = IF o = "ok" THEN "succ_w" ELSE "fail_w"]
    /\ UNCHANGED <<index, store, session_lock, stats, env, expired_sessions, nreq, ghost>>

\* ask_question after call_gemini_api returned: if error: return f"Error: {error}", []
\* (chat then stores), else store_conversation(session_id, question, answer)
AfterCall(t) ==
    [loc[t] EXCEPT !.tmp = 0,
                   !.outcome = None,
                   !.alone = FALSE,
                   !.entry = <<0, 0, 0>>,
                   !.answer = IF loc[t].error # None THEN <<"Error: ", loc[t].error>> ELSE @,
                   !.sources = IF loc[t].error # None THEN <<>> ELSE @,
                   !.phase = IF loc[t].error # None THEN "chat" ELSE "ask"]

\* self._successful_calls += 1 : the write; return response_text, None
SuccessWrite(t) ==
    /\ pc[t] = "succ_w"
    /\ successful_calls' = loc[t].tmp + 1
    /\ loc' = [loc EXCEPT ![t] = [AfterCall(t) EXCEPT !.incs[2] = @ + 1]]
    /\ pc' = [pc EXCEPT ![t] = "st_chk"]
    /\ UNCHANGED <<index, store, session_lock, api_call_count, failed_calls, env,
                   expired_sessions, posts, nreq, ghost>>

\* FailedWrite with the += 1 forgotten on the "any other exception" path
FailedWriteForgets(t) ==
    /\ pc[t] = "fail_w"
    /\ failed_calls' = IF loc[t].outcome = "exc" THEN failed_calls ELSE loc[t].tmp + 1
    /\ loc' = [loc EXCEPT ![t] = [AfterCall(t) EXCEPT
                                    !.incs[3] = IF loc[t].outcome = "exc" THEN @ ELSE @ + 1]]
    /\ pc' = [pc EXCEPT ![t] = ReturnTo(t)]
    /\ UNCHANGED <<index, store, session_lock, api_call_count, successful_calls, env,
                   expired_sessions, posts, nreq, ghost>>

\* self._failed_calls += 1 : the write, on each of the four failure paths;
\* return None, <message>
FailedWrite(t) ==
    /\ pc[t] = "fail_w"
    /\ failed_calls' = loc[t].tmp + 1
    /\ loc' = [loc EXCEPT ![t] = [AfterCall(t) EXCEPT !.incs[3] = @ + 1]]
    /\ pc' = [pc EXCEPT ![t] = ReturnTo(t)]
    /\ UNCHANGED <<index, store, session_lock, api_call_count, successful_calls, env,
                   expired_sessions, posts, nreq, ghost>>

\* ------------------------------------------------------- store_conversation
\* One stored turn (its timestamp, which nothing reads, is left out)
Turn(role, content) == [role |-> role, content |-> content]

\* A chat request ends: the handler's response is sent
Respond(t, ok) ==
    /\ pc' = [pc EXCEPT ![t] = "idle"]
    /\ loc' = [loc EXCEPT ![t] = NoLocals]
    /\ served' = [served EXCEPT ![loc[t].sid] =
                    Append(@, [user_input |-> loc[t].user_input,
                               answer |-> loc[t].answer, ok |-> ok])]

\* KeyError with ask_question's except left out: the exception reaches chat
KeyErrorPropagates(t) == Respond(t, FALSE)

\* self._conversation_store[chat_session_id] raises KeyError: ask_question's
\* except returns the error text to chat, chat's except answers 500
KeyError(t) ==
    IF loc[t].phase = "ask"
    THEN /\ loc' = [loc EXCEPT ![t].answer = <<"Error getting answer: ", loc[t].sid>>,
                               ![t].error = "KeyError",
                               ![t].sources = <<>>,
                               ![t].phase = "chat"]
         /\ pc' = [pc EXCEPT ![t] = ReturnTo(t)]
         /\ UNCHANGED served
    ELSE Respond(t, FALSE)

\* if chat_session_id not in self._conversation_store: the test
StoreCheck(t) ==
    /\ pc[t] = "st_chk"
    /\ pc' = [pc EXCEPT ![t] = IF loc[t].sid \in DOMAIN conversation_store
                               THEN "st_user" ELSE "st_new"]
    /\ UNCHANGED <<index, store, session_lock, stats, env, loc, expired_sessions, posts,
                   nreq, ghost>>

\* self._conversation_store[chat_session_id] = []
StoreNew(t) ==
    /\ pc[t] = "st_new"
    /\ conversation_store' = Put(conversation_store, loc[t].sid, <<>>)
    /\ pc' = [pc EXCEPT ![t] = "st_user"]
    /\ UNCHANGED <<index, system_instructions, session_last_activity, session_lock, stats,
                   env, loc, expired_sessions, posts, nreq, ghost>>

\* self._conversation_store[chat_session_id].append({'role': 'user', ...})
StoreUser(t) ==
    /\ pc[t] = "st_user"
    /\ LET s == loc[t].sid
       IN IF s \in DOMAIN conversation_store
          THEN /\ conversation_store' =
                     [conversation_store EXCEPT
                        ![s] = Append(@, Turn("user", loc[t].user_input))]
               /\ pc' = [pc EXCEPT ![t] = "st_asst"]
               /\ UNCHANGED <<loc, served>>
          ELSE /\ KeyError(t)
               /\ UNCHANGED conversation_store
    /\ UNCHANGED <<index, system_instructions, session_last_activity, session_lock, stats,
                   env, expired_sessions, posts, nreq, firstCalls, evicted>>

\* self._conversation_store[chat_session_id].append({'role': 'assistant', ...});
\* ask_question then returns (answer, source_info) and chat calls
\* store_conversation(userid, user_input, answer); chat then returns its response
StoreAssistant(t) ==
    /\ pc[t] = "st_asst"
    /\ LET s == loc[t].sid
       IN IF s \in DOMAIN conversation_store
          THEN /\ conversation_store' =
                     [conversation_store EXCEPT
                        ![s] = Append(@, Turn("assistant", loc[t].answer))]
               /\ IF loc[t].phase = "ask"
                  THEN /\ pc' = [pc EXCEPT ![t] = ReturnTo(t)]
                       /\ loc' = [loc EXCEPT ![t].phase = "chat"]
                       /\ UNCHANGED served
                  ELSE Respond(t, loc[t].error = None)
          ELSE /\ KeyError(t)
               /\ UNCHANGED conversation_store
    /\ UNCHANGED <<index, system_instructions, session_last_activity, session_lock, stats,
                   env, expired_sessions, posts, nreq, firstCalls, evicted>>

\* ----------------------------------------------------------------- cleanup
\* cleanup_session(session_id) is called
CleanupStart(t, s) ==
    /\ pc[t] = "idle"
    /\ t = FreeWorker
    /\ pc' = [pc EXCEPT ![t] = "cl_acq"]
    /\ loc' = [u \in Threads |->
                 IF u = t THEN [NoLocals EXCEPT !.sid = s]
                 ELSE IF u \in OnSession(s) THEN [loc[u] EXCEPT !.solo = FALSE]
                 ELSE loc[u]]
    /\ UNCHANGED <<index, store, session_lock, stats, env, expired_sessions, posts, nreq, ghost>>

\* CleanupDelConversation with the del of the conversation left out
CleanupKeepsConversation(t) ==
    /\ pc[t] = "cl_acq"
    /\ session_lock = Free
    /\ session_lock' = t
    /\ pc' = [pc EXCEPT ![t] = "cl_instr"]
    /\ UNCHANGED <<index, store, stats, env, loc, expired_sessions, posts, nreq, ghost>>

\* _cleanup_session: with self._session_lock: (threading.Lock is not reentrant)
\*     if session_id in self._conversation_store: del ...
CleanupDelConversation(t) ==
    /\ pc[t] = "cl_acq"
    /\ session_lock = Free
    /\ session_lock' = t
    /\ conversation_store' = Del(conversation_store, loc[t].sid)
    /\ pc' = [pc EXCEPT ![t] = "cl_instr"]
    /\ UNCHANGED <<index, system_instructions, session_last_activity, stats,
                   env, loc, expired_sessions, posts, nreq, ghost>>

\* CleanupDelInstruction clearing the whole instruction map
CleanupClearsInstructions(t) ==
    /\ pc[t] = "cl_instr"
    /\ system_instructions' = EmptyMap
    /\ pc' = [pc EXCEPT ![t] = "cl_act"]
    /\ UNCHANGED <<index, conversation_store, session_last_activity, session_lock, stats,
                   env, loc, expired_sessions, posts, nreq, ghost>>

\* if session_id in self._system_instructions: del ...
CleanupDelInstruction(t) ==
    /\ pc[t] = "cl_instr"
    /\ system_instructions' = Del(system_instructions, loc[t].sid)
    /\ pc' = [pc EXCEPT ![t] = "cl_act"]
    /\ UNCHANGED <<index, conversation_store, session_last_activity, session_lock, stats,
                   env, loc, expired_sessions, posts, nreq, ghost>>

\* CleanupDelActivity resetting the API counters with the session
CleanupResetsStats(t) ==
    /\ pc[t] = "cl_act"
    /\ session_last_activity' = Del(session_last_activity, loc[t].sid)
    /\ session_lock' = Free
    /\ pc' = [pc EXCEPT ![t] = IF t = Sweeper THEN "sw_loop" ELSE "idle"]
    /\ loc' = [loc EXCEPT ![t] = NoLocals]
    /\ firstCalls' = [firstCalls EXCEPT ![loc[t].sid] = 0]
    /\ evicted' = [evicted EXCEPT ![loc[t].sid] = TRUE]
    /\ served' = [served EXCEPT ![loc[t].sid] = <<>>]
    /\ api_call_count' = 0
    /\ successful_calls' = 0
    /\ failed_calls' = 0
    /\ UNCHANGED <<index, conversation_store, system_instructions, env,
                   expired_sessions, posts, nreq>>

\* if session_id in self._session_last_activity: del ... ; the with block ends
\* and _cleanup_session returns, to cleanup_session (which returns) or to the
\* sweep's loop
CleanupDelActivity(t) ==
    /\ pc[t] = "cl_act"
    /\ session_last_activity' = Del(session_last_activity, loc[t].sid)
    /\ session_lock' = Free
    /\ pc' = [pc EXCEPT ![t] = IF t = Sweeper THEN "sw_loop" ELSE "idle"]
    /\ loc' = [loc EXCEPT ![t] = NoLocals]
    /\ firstCalls' = [firstCalls EXCEPT ![loc[t].sid] = 0]
    /\ evicted' = [evicted EXCEPT ![loc[t].sid] = TRUE]
    /\ served' = [served EXCEPT ![loc[t].sid] = <<>>]
    /\ UNCHANGED <<index, conversation_store, system_instructions, stats, env,
                   expired_sessions, posts, nreq>>

\* ------------------------------------------------------------------- sweep
\* Expired with the test >= in place of >
ExpiredFromTwoHours == {s \in DOMAIN session_last_activity :
                          now - session_last_activity[s] >= SessionTimeout}

\* Sessions inactive for more than 2 hours
Expired == {s \in DOMAIN session_last_activity :
              now - session_last_activity[s] > SessionTimeout}

\* _cleanup_expired_sessions: the lock is taken and the expired ids collected;
\* with none expired the with block ends at once and the worker sleeps again
SweepStart ==
    /\ pc[Sweeper] = "sleep"
    /\ session_lock = Free
    /\ IF Expired = {}
       THEN UNCHANGED <<session_lock, expired_sessions, pc>>
       ELSE /\ session_lock' = Sweeper
            /\ expired_sessions' = Expired
            /\ pc' = [pc EXCEPT ![Sweeper] = "sw_loop"]
    /\ UNCHANGED <<index, store, stats, env, loc, posts, nreq, ghost>>

\* for session_id in expired_sessions: self._cleanup_session(session_id);
\* after the loop the with block ends and the worker sleeps
SweepLoop ==
    /\ pc[Sweeper] = "sw_loop"
    /\ IF expired_sessions = {}
       THEN /\ session_lock' = Free
            /\ pc' = [pc EXCEPT ![Sweeper] = "sleep"]
            /\ UNCHANGED <<expired_sessions, loc>>
       ELSE /\ \E s \in expired_sessions :
                 /\ expired_sessions' = expired_sessions \ {s}
                 /\ loc' = [loc EXCEPT ![Sweeper] = [NoLocals EXCEPT !.sid = s]]
            /\ pc' = [pc EXCEPT ![Sweeper] = "cl_acq"]
            /\ UNCHANGED session_lock
    /\ UNCHANGED <<index, store, stats, env, posts, nreq, ghost>>

\* ------------------------------------------------------- retrieval router
\* str.lower() on the letters
UpperCase == <<"A", "B", "C", "D", "E", "F", "G", "H", "I", "J", "K", "L", "M",
               "N", "O", "P", "Q", "R", "S", "T", "U", "V", "W", "X", "Y", "Z">>
LowerCase == <<"a", "b", "c", "d", "e", "f", "g", "h", "i", "j", "k", "l", "m",
               "n", "o", "p", "q", "r", "s", "t", "u", "v", "w", "x", "y", "z">>

LowerChar(c) ==
    IF \E i \in 1..26 : UpperCase[i] = c
    THEN LowerCase[CHOOSE i \in 1..26 : UpperCase[i] = c]
    ELSE c

lower(text) == [i \in 1..Len(text) |-> LowerChar(text[i])]

\* keyword in text: the keyword is a substring
In(keyword, text) ==
    \E i \in 0..(Len(text) - Len(keyword)) :
        SubSeq(text, i + 1, i + Len(keyword)) = keyword

\* The alias table of _smart_workflow_retrieve, in the order of the dict
companies ==
    <<<<<<"s", "t", "e", "a", "l", "t", "h", " ", "s", "t", "a", "r", "t", "u", "p">>, "Stealth Startup">>,
      <<<<"s", "t", "a", "r", "t", "u", "p">>, "Stealth Startup">>,
      <<<<"m", "e", "t", "a">>, "Meta">>,
      <<<<"f", "a", "c", "e", "b", "o", "o", "k">>, "Meta">>,
      <<<<"c", "o", "p", "a", "r", "t">>, "Copart">>,
      <<<<"s", "c", "a", "l", "e", " ", "a", "i">>, "Scale AI">>,
      <<<<"f", "i", "d", "e", "l", "i", "t", "y">>, "Fidelity">>>>

timeline_keywords ==
    {<<"m", "o", "s", "t", " ", "r", "e", "c", "e", "n", "t">>,
     <<"l", "a", "s", "t", " ", "c", "o", "m", "p", "a", "n", "y">>,
     <<"c", "u", "r", "r", "e", "n", "t">>,
     <<"l", "a", "t", "e", "s", "t">>,
     <<"r", "e", "c", "e", "n", "t", " ", "e", "x", "p", "e", "r", "i", "e", "n", "c", "e">>,
     <<"p", "r", "e", "v", "i", "o", "u", "s">>,
     <<"e", "a", "r", "l", "i", "e", "s", "t">>,
     <<"f", "i", "r", "s", "t">>}

\* The words questions are made of, and the questions of up to MaxWords words
Vocabulary ==
    {<<"M", "e", "t", "a">>,
     <<"m", "e", "t", "a", "d", "a", "t", "a">>,
     <<"f", "a", "c", "e", "b", "o", "o", "k">>,
     <<"C", "o", "p", "a", "r", "t">>,
     <<"s", "t", "e", "a", "l", "t", "h">>,
     <<"s", "t", "a", "r", "t", "u", "p">>,
     <<"S", "c", "a", "l", "e">>,
     <<"A", "I">>,
     <<"f", "i", "d", "e", "l", "i", "t", "y">>,
     <<"f", "i", "r", "s", "t">>,
     <<"l", "a", "t", "e", "s", "t">>,
     <<"s", "k", "i", "l", "l", "s">>}

RECURSIVE Join(_)
Join(words) ==
    IF Len(words) = 1
    THEN words[1]
    ELSE words[1] \o <<" ">> \o Join(Tail(words))

Questions ==
    {Join(words) : words \in UNION {[1..n -> Vocabulary] : n \in 1..MaxWords}}

\* vectorstore.similarity_search(query, k) on a collection of n chunks: the k
\* nearest chunks, all of them when there are fewer
similarity_search(query, k, n) ==
    [query |-> query, k |-> k, n |-> n, results |-> IF n < k THEN n ELSE k]

\* _retrieve_company_experience
retrieve_company_experience(company_name, n) ==
    CASE company_name = "Meta" ->
           similarity_search(
             <<"Meta Technical Program Manager Global Security GPS anomaly detection">>, 4, n)
      [] company_name = "Copart" ->
           similarity_search(<<"Copart Technical Product Manager Generative AI platform">>, 4, n)
      [] company_name = "Stealth Startup" ->
           similarity_search(<<"Stealth Startup AI Product Lead travel concierge">>, 4, n)
      [] company_name = "Scale AI" ->
           similarity_search(<<"Scale AI Product Manager">>, 4, n)
      [] company_name = "Fidelity" ->
           similarity_search(
             <<"Fidelity International Limited Global Infrastructure Automation">>, 4, n)
      [] OTHER -> similarity_search(<<company_name>>, 4, n)

\* FirstCompany taking the last alias of the table that matches
RECURSIVE LastCompany(_, _)
LastCompany(question_lower, i) ==
    IF i > Len(companies)
    THEN None
    ELSE LET later == LastCompany(question_lower, i + 1)
         IN IF later # None
            THEN later
            ELSE IF In(companies[i][1], question_lower) THEN companies[i][2] ELSE None

\* for keyword, company_name in companies.items(): if keyword in question_lower
RECURSIVE FirstCompany(_, _)
FirstCompany(question_lower, i) ==
    IF i > Len(companies)
    THEN None
    ELSE IF In(companies[i][1], question_lower)
         THEN companies[i][2]
         ELSE FirstCompany(question_lower, i + 1)

\* smart_workflow_retrieve with the timeline test ahead of the company test
smart_workflow_retrieve_timeline_first(text, n) ==
    LET question_lower == lower(text)
        company_name == FirstCompany(question_lower, 1)
    IN IF \E keyword \in timeline_keywords : In(keyword, question_lower)
       THEN similarity_search(text, 6, n)
       ELSE IF company_name # None
            THEN retrieve_company_experience(company_name, n)
            ELSE similarity_search(text, 4, n)

\* smart_workflow_retrieve searching with the lowercased question
smart_workflow_retrieve_lowered(text, n) ==
    LET question_lower == lower(text)
        company_name == FirstCompany(question_lower, 1)
    IN IF company_name # None
       THEN retrieve_company_experience(company_name, n)
       ELSE IF \E keyword \in timeline_keywords : In(keyword, question_lower)
            THEN similarity_search(question_lower, 6, n)
            ELSE similarity_search(question_lower, 4, n)

\* _smart_workflow_retrieve on a collection of n chunks
smart_workflow_retrieve(text, n) ==
    LET question_lower == lower(text)
        company_name == FirstCompany(question_lower, 1)
    IN IF company_name # None
       THEN retrieve_company_experience(company_name, n)
       ELSE IF \E keyword \in timeline_keywords : In(keyword, question_lower)
            THEN similarity_search(text, 6, n)
            ELSE similarity_search(text, 4, n)

\* _smart_workflow_retrieve(question) is applied to the question
SmartWorkflowRetrieve ==
    /\ vectorstore # NoIndex
    /\ search = NoSearch
    /\ \E n \in 0..MaxChunks : search' = smart_workflow_retrieve(question, n)
    /\ UNCHANGED <<vectorstore, question, documents, store, session_lock, stats, env, pc,
                   loc, expired_sessions, posts, nreq, ghost>>

\* ------------------------------------------------------------ specification
WorkerStep(t) ==
    \/ InitCheck(t) \/ CheckChunks(t) \/ CreateVectorstore(t) \/ Retrieve(t)
    \/ GetHistory(t)
    \/ UpdateSessionActivity(t)
    \/ CountRead(t) \/ CountWrite(t)
    \/ BuildPayload(t) \/ PostRequest(t)
    \/ SuccessWrite(t) \/ FailedWrite(t)
    \/ StoreCheck(t) \/ StoreNew(t) \/ StoreUser(t) \/ StoreAssistant(t)

CleanupStep(t) ==
    \/ CleanupDelConversation(t)
    \/ CleanupDelInstruction(t)
    \/ CleanupDelActivity(t)

SweepStep == SweepStart \/ SweepLoop \/ CleanupStep(Sweeper)

\* Spec: the pool threads race on one session id within one clock hour (no
\* session expires, so a sweep tick finds nothing to do).
HotSession == "s1"

Next ==
    \/ ChangeTemplate
    \/ \E t \in Workers : ChatStart(t, HotSession)
    \/ \E t \in Workers : CleanupStart(t, HotSession)
    \/ \E t \in Workers : WorkerStep(t)
    \/ \E t \in Workers : CleanupStep(t)

Spec == Init /\ [][Next]_vars

\* SweepSpec: one pool thread serves every session id, one request or cleanup
\* after the other, while the clock advances and the sweep thread runs.
SoleWorker == "t1"

SweepNext ==
    \/ Tick
    \/ ChangeTemplate
    \/ \E s \in Sessions : ChatStart(SoleWorker, s)
    \/ \E s \in Sessions : CleanupStart(SoleWorker, s)
    \/ WorkerStep(SoleWorker)
    \/ \E t \in {SoleWorker, Sweeper} : CleanupStep(t)
    \/ SweepStart
    \/ SweepLoop

SweepSpec == Init /\ [][SweepNext]_vars

\* The interpreter keeps scheduling every thread that can run: a request in
\* flight and the sweep's daemon thread take their next step when it is enabled.
FairSpec ==
    /\ SweepSpec
    /\ WF_vars(WorkerStep(SoleWorker) \/ CleanupStep(SoleWorker))
    /\ WF_vars(SweepStep)

\* ApiSpec: the pool threads race on one session id as in Spec, and
\* ask_question is also called directly, without chat's initialization.
ApiNext ==
    \/ \E t \in Workers : ChatStart(t, HotSession)
    \/ \E t \in Workers : AskStart(t, HotSession)
    \/ \E t \in Workers : CleanupStart(t, HotSession)
    \/ \E t \in Workers : WorkerStep(t)
    \/ \E t \in Workers : AskDone(t)
    \/ \E t \in Workers : CleanupStep(t)

ApiSpec == Init /\ [][ApiNext]_vars

\* FrameSpec: the pool threads serve requests and cleanups for both session
\* ids at once, within one clock hour.
FrameNext ==
    \/ \E t \in Workers, s \in Sessions : ChatStart(t, s)
    \/ \E t \in Workers, s \in Sessions : CleanupStart(t, s)
    \/ \E t \in Workers : WorkerStep(t)
    \/ \E t \in Workers : CleanupStep(t)

FrameSpec == Init /\ [][FrameNext]_vars

\* LoadSpec: one pool thread serves chat requests and direct ask_question
\* calls one after the other while the files of data/ come and go.
LoadNext ==
    \/ \E d \in AllDocuments : RemoveDocument(d)
    \/ \E d \in AllDocuments : RestoreDocument(d)
    \/ ChatStart(SoleWorker, HotSession)
    \/ AskStart(SoleWorker, HotSession)
    \/ WorkerStep(SoleWorker)
    \/ AskDone(SoleWorker)

LoadSpec == Init /\ [][LoadNext]_vars

\* RouterSpec: the router applied once to each question, on an index that has
\* been built and holds any number of chunks up to MaxChunks.
RouterInit ==
    /\ Constructed
    /\ GEMINI_API_KEY
    /\ vectorstore = 1
    /\ question \in Questions
    /\ search = NoSearch
    /\ documents = AllDocuments

RouterNext == SmartWorkflowRetrieve

RouterSpec == RouterInit /\ [][RouterNext]_vars

\* ------------------------------------------------------------------ claims
RequestPcs == {"init", "chunks", "create", "retr", "ret", "hist", "touch", "cnt_r", "cnt_w", "build", "post", "succ_w",
               "fail_w", "st_chk", "st_new", "st_user", "st_asst"}

Absent(s) ==
    /\ s \notin DOMAIN conversation_store
    /\ s \notin DOMAIN system_instructions
    /\ s \notin DOMAIN session_last_activity

\* C1: a sweep tick that starts while some session's lastActivity is more than
\* 2 hours old finishes, and the session is then absent from the conversation
\* store, the system-instruction map and the last-activity map.
C1_SweepEvictsExpired ==
    \A s \in Sessions :
        (pc[Sweeper] = "sw_loop" /\ s \in expired_sessions)
            ~> (pc[Sweeper] = "sleep" /\ Absent(s))

\* C2: every request that has started eventually returns, whatever the sweep
\* thread and explicit cleanup_session calls do: none waits for the session
\* lock for ever.
C2_RequestsReturn ==
    \A t \in Workers : (pc[t] \in RequestPcs) ~> (pc[t] = "idle")

\* C3: between a session's creation and its eviction exactly one ask_question
\* call computes is_first_call = True.
C3_FirstCallOnce ==
    \A s \in Sessions : firstCalls[s] <= 1

\* C4: when q1 and then q2 are handled one after the other for one session and
\* the first succeeded with a1, the payload of the second call is a
\* continuation payload with the prior turns [user q1, model a1] and then the
\* new user turn.
C4_SecondPayloadHasOneExchange ==
    \A t \in Workers :
        (/\ pc[t] = "post"
         /\ loc[t].solo
         /\ Len(loc[t].prev) = 1
         /\ loc[t].prev[1].ok)
        => /\ loc[t].payload.kind = "cont"
           /\ loc[t].payload.contents =
                <<[role |-> "user", text |-> loc[t].prev[1].user_input],
                  [role |-> "model", text |-> loc[t].prev[1].answer],
                  [role |-> "user", text |-> FormatUserMessage(loc[t].user_input)]>>

C6_SnapshotFixed ==
    [][\A s \in Sessions :
          (s \in DOMAIN system_instructions /\ s \in DOMAIN system_instructions')
              => system_instructions'[s] = system_instructions[s]]_vars

\* Positions between the first and the last write of store_conversation and of
\* _cleanup_session
MutatingPcs == {"st_user", "st_asst", "cl_instr", "cl_act"}

\* C7: at no time are two threads inside operations that mutate the session
\* maps.
C7_MutualExclusion ==
    Cardinality({t \in Threads : pc[t] \in MutatingPcs}) <= 1

\* C8: a session's history is always a concatenation of whole (user question,
\* assistant answer) pairs, each from one request: the roles alternate user,
\* assistant, and an answer follows the question it answers.
C8_WholePairs ==
    \A s \in DOMAIN conversation_store :
        \A i \in 1..Len(conversation_store[s]) :
            LET turn == conversation_store[s][i]
            IN IF i % 2 = 1
               THEN turn.role = "user"
               ELSE /\ turn.role = "assistant"
                    /\ turn.content[1] = "answer to"
                          => conversation_store[s][i - 1].content = Question(turn.content[2])

\* C9: call_gemini_api with no API key configured returns the error without a
\* network request and leaves the three counters, lastActivity, the snapshot
\* and the history unchanged.
C9_NoKeyNoEffect ==
    [][~GEMINI_API_KEY =>
          /\ UNCHANGED <<api_call_count, successful_calls, failed_calls, posts,
                         session_last_activity, system_instructions>>
          /\ \A t \in Workers :
                (pc[t] = "hist" /\ pc'[t] # "hist")
                    => /\ loc'[t].error = ErrNoKey
                       /\ UNCHANGED conversation_store]_vars

C9_Witness ==
    /\ ~GEMINI_API_KEY
    /\ \E t \in Workers : pc[t] = "st_asst" /\ loc[t].error = ErrNoKey
    /\ session_last_activity = EmptyMap

\* C10: a call_gemini_api invocation with an API key configured executes the
\* += 1 on totalCalls once and the += 1 on exactly one of successfulCalls and
\* failedCalls once (successfulCalls iff the text was extracted), on every way
\* out; when no other invocation overlaps it, the counters have moved by
\* exactly that much when it returns.
C10_OneIncrementEach ==
    [][\A t \in Workers :
          (pc[t] \in {"succ_w", "fail_w"} /\ pc'[t] \in {"st_chk", "ret"})
              => LET ok == loc[t].outcome = "ok"
                     inc == IF ok THEN <<1, 1, 0>> ELSE <<1, 0, 1>>
                 IN /\ loc'[t].incs = inc
                    /\ loc[t].alone =>
                          /\ api_call_count' = loc[t].entry[1] + inc[1]
                          /\ successful_calls' = loc[t].entry[2] + inc[2]
                          /\ failed_calls' = loc[t].entry[3] + inc[3]]_vars

C10_Witness ==
    /\ api_call_count = 2
    /\ successful_calls = 1
    /\ failed_calls = 1
    /\ \E t \in Workers : pc[t] = "st_chk" /\ loc[t].error = ErrUnexpected

\* C11: when the call_gemini_api invocations made with an API key, overlapping
\* or not, have all completed, totalCalls equals their number and
\* successfulCalls + failedCalls equals their number: no increment is lost.
C11_NoLostIncrement ==
    (\A t \in Workers : pc[t] \notin CallPcs)
        => /\ api_call_count = posts
           /\ successful_calls + failed_calls = posts

\* The aliases the lowercased question contains, as positions of the table
MatchingAliases ==
    LET question_lower == lower(question)
    IN {i \in 1..Len(companies) : In(companies[i][1], question_lower)}
HasTimelineKeyword == \E keyword \in timeline_keywords : In(keyword, lower(question))
Searched == search # NoSearch
ExpandedQuery(company_name) == retrieve_company_experience(company_name, 0).query

\* C12 (as stated): for a question whose lowercased text contains a company
\* alias, the search is issued with a matching company's expanded query and
\* k = 4, not with the raw question, and returns exactly 4 results, also when
\* the question contains a timeline keyword.
C12_CompanyQueryFourResults ==
    LET matching == MatchingAliases
    IN (Searched /\ matching # {})
          => /\ \E i \in matching : search.query = ExpandedQuery(companies[i][2])
             /\ search.query # question
             /\ search.k = 4
             /\ search.results = 4

\* C12 (amended): ... k = 4, and it returns the 4 nearest chunks, or all the
\* chunks of the index when it holds fewer than 4.
C12_CompanyQueryUpToFour ==
    LET matching == MatchingAliases
    IN (Searched /\ matching # {})
          => /\ \E i \in matching : search.query = ExpandedQuery(companies[i][2])
             /\ search.query # question
             /\ search.k = 4
             /\ search.results = (IF search.n < 4 THEN search.n ELSE 4)

C12_Witness ==
    /\ Searched
    /\ MatchingAliases # {}
    /\ HasTimelineKeyword
    /\ search.n > 4
    /\ search.results = 4

\* C13: for a question that contains no company alias the search is issued
\* with the raw question text, with k = 6 when the question contains a
\* timeline keyword and k = 4 otherwise.
C13_RawQuestionSearch ==
    (Searched /\ MatchingAliases = {})
        => /\ search.query = question
           /\ search.k = (IF HasTimelineKeyword THEN 6 ELSE 4)

C13_Witness ==
    /\ Searched
    /\ MatchingAliases = {}
    /\ HasTimelineKeyword
    /\ lower(question) # question
    /\ search.k = 6

\* C14: when the question contains aliases of several companies, the company
\* searched for is that of the first matching alias in the order of the
\* table, wherever the aliases stand in the question.
C14_FirstAliasInTableOrder ==
    LET matching == MatchingAliases
    IN \A i \in matching :
          (Searched /\ \A j \in matching : i <= j)
              => search.query = ExpandedQuery(companies[i][2])

\* the question "Copart Meta": copart comes first in the text, meta in the table
C14_Witness ==
    /\ Searched
    /\ question = <<"C", "o", "p", "a", "r", "t", " ", "M", "e", "t", "a">>
    /\ search.query = ExpandedQuery("Meta")

\* C15: ask_question called while the index has not been built returns the
\* not-initialized message with an empty source list at once, with no
\* retrieval and no gateway call, and leaves the history, the snapshots,
\* lastActivity and the counters unchanged.
C15_NotInitializedNoEffect ==
    [][\A t \in Workers :
          (pc[t] = "retr" /\ pc'[t] # "retr" /\ vectorstore = NoIndex)
              => /\ pc'[t] = "ret"
                 /\ loc'[t].answer = <<ErrNotInitialized>>
                 /\ loc'[t].sources = <<>>
                 /\ UNCHANGED <<store, stats, posts, search>>]_vars

C15_Witness ==
    \E t \in Workers :
        /\ pc[t] = "ret"
        /\ loc[t].answer = <<ErrNotInitialized>>
        /\ vectorstore = NoIndex

\* Thread t is inside ask_question
InAsk(t) ==
    \/ pc[t] \in {"retr", "hist"} \cup CallPcs
    \/ pc[t] \in {"st_chk", "st_new", "st_user", "st_asst"} /\ loc[t].phase = "ask"

\* C16: ask_question never raises: whatever fails below it, it returns to its
\* caller a pair of a message text and, on failure, the empty source list.
C16_AskNeverRaises ==
    [][\A t \in Workers :
          (InAsk(t) /\ ~InAsk(t)')
              => /\ pc'[t] = ReturnTo(t)
                 /\ loc'[t].answer # NoText
                 /\ loc'[t].error # None => loc'[t].sources = <<>>]_vars

C16_Witness ==
    \E t \in Workers :
        /\ pc[t] \in {"ret", "st_chk"}
        /\ loc[t].error = "KeyError"
        /\ loc[t].sources = <<>>

\* C17: turns are appended only for exchanges whose gateway call succeeded:
\* the text of a gateway error (f"Error: {error}") is never a stored turn,
\* and with no request in progress a session whose requests since its last
\* eviction all succeeded holds exactly two turns for each of them.
C17_HistoryOnlySuccesses ==
    \A s \in Sessions :
        /\ \A i \in 1..Len(get_conversation_history(s)) :
               get_conversation_history(s)[i].content[1] # "Error: "
        /\ (pc[SoleWorker] = "idle" /\ \A i \in 1..Len(served[s]) : served[s][i].ok)
               => Len(get_conversation_history(s)) = 2 * Len(served[s])

\* C18: initialization is idempotent: a request that arrives after the index
\* has been built passes chat's initialization section without loading the
\* documents or entering create_vectorstore, and none of its steps changes
\* the index handle.
C18_InitIdempotent ==
    [][\A t \in Workers :
          (loc[t].late /\ pc'[t] # pc[t])
              => /\ pc[t] = "init" => pc'[t] = "retr"
                 /\ pc'[t] # "create"
                 /\ vectorstore' = vectorstore]_vars

C18_Witness ==
    \E t \in Workers :
        /\ pc[t] = "retr"
        /\ loc[t].late
        /\ ~loc[t].direct
        /\ vectorstore = 1

\* C19: of the requests that arrive while the index is not built at most one
\* is inside create_vectorstore at a time, and no ask_question retrieval runs
\* on the index while a create_vectorstore is in progress.
C19_SingleBuilder ==
    [][/\ Cardinality({t \in Workers : pc[t] = "create"}) <= 1
       /\ \A t \in Workers :
             (pc[t] = "retr" /\ pc'[t] # "retr" /\ vectorstore # NoIndex)
                 => \A u \in Workers : pc[u] # "create"]_vars

\* C20: a sweep tick never removes a session whose lastActivity is at most 2
\* hours in the past: such a session is not collected as expired, and no step
\* of the sweep thread changes its turns, its snapshot or its lastActivity.
C20_SweepKeepsFresh ==
    [][\A s \in DOMAIN session_last_activity :
          now - session_last_activity[s] <= SessionTimeout
              => /\ s \notin expired_sessions'
                 /\ pc'[Sweeper] # pc[Sweeper]
                       => /\ s \in DOMAIN session_last_activity'
                          /\ session_last_activity'[s] = session_last_activity[s]
                          /\ get_conversation_history(s)' = get_conversation_history(s)
                          /\ (s \in DOMAIN system_instructions)
                                = (s \in DOMAIN system_instructions')]_vars

\* the sweep has collected one session while another, idle for exactly 2
\* hours, is left out
C20_Witness ==
    /\ pc[Sweeper] = "sw_loop"
    /\ expired_sessions # {}
    /\ \E s \in DOMAIN session_last_activity :
          /\ now - session_last_activity[s] = SessionTimeout
          /\ s \notin expired_sessions

\* C21: for every inbound question the session's lastActivity is refreshed
\* before the session's state is read: when ask_question reads the history
\* that decides is_first_call the session has a lastActivity entry that the
\* sweep does not judge expired, and the sweep does not collect the session
\* as expired between that read and the touch of call_gemini_api.
C21_TouchBeforeRead ==
    [][\A t \in Workers :
          /\ (pc[t] = "hist" /\ pc'[t] # "hist")
                => /\ loc[t].sid \in DOMAIN session_last_activity
                   /\ loc[t].sid \notin Expired
          /\ pc[t] = "touch"
                => ~(loc[t].sid \in expired_sessions' /\ loc[t].sid \notin expired_sessions)]_vars

\* C22: when either source document cannot be read, load_and_chunk_documents
\* returns an empty chunk sequence (no chunks of the readable document), the
\* request ends without entering create_vectorstore and leaves the index
\* handle unset, and an ask_question call made while the handle is unset gets
\* the not-initialized result.
C22_UnreadableDocumentNoIndex ==
    [][\A t \in Workers :
          /\ (pc[t] = "init" /\ pc'[t] = "chunks" /\ documents # AllDocuments)
                => loc'[t].chunks = <<>>
          /\ (pc[t] = "chunks" /\ loc[t].chunks = <<>> /\ pc'[t] # "chunks")
                => /\ pc'[t] = "idle"
                   /\ vectorstore' = NoIndex
          /\ (pc[t] = "retr" /\ pc'[t] # "retr" /\ vectorstore = NoIndex)
                => /\ loc'[t].answer = <<ErrNotInitialized>>
                   /\ loc'[t].sources = <<>>]_vars

\* the behavioral Q&A file is missing and the load has returned no chunks
C22_Witness ==
    /\ documents = {"resume"}
    /\ pc[SoleWorker] = "chunks"
    /\ loc[SoleWorker].chunks = <<>>
    /\ vectorstore = NoIndex

\* The contents a continuation payload replays from the stored turns h
Replayed(h) ==
    [i \in 1..Len(h) |->
        [role |-> IF h[i].role = "assistant" THEN "model" ELSE "user",
         text |-> h[i].content]]

\* C23: every continuation payload carries the session's recorded instruction
\* snapshot, replays all the stored turns in stored order (assistant as
\* model, user as user) and ends with one new user turn, so that its contents
\* are one longer than the history; every first-call payload has exactly one
\* user turn.
C23_PayloadContents ==
    [][\A t \in Workers :
          (pc[t] = "build" /\ pc'[t] = "post")
              => LET s == loc[t].sid
                     payload == loc'[t].payload
                     h == get_conversation_history(s)
                     new == [role |-> "user", text |-> FormatUserMessage(loc[t].user_input)]
                 IN IF loc[t].is_first_call
                    THEN /\ payload.kind = "first"
                         /\ payload.contents = <<new>>
                    ELSE /\ payload.kind = "cont"
                         /\ s \in DOMAIN system_instructions
                         /\ payload.system_instruction = system_instructions[s]
                         /\ Len(payload.contents) = Len(h) + 1
                         /\ payload.contents = Replayed(h) \o <<new>>]_vars

\* C24: a session's turn history is append-only between evictions: every
\* step leaves it unchanged, extends it at the end, or removes the whole
\* session.
C24_AppendOnly ==
    [][\A s \in Sessions :
          LET h == get_conversation_history(s)
              after == get_conversation_history(s)'
          IN \/ after = h
             \/ Len(after) > Len(h) /\ SubSeq(after, 1, Len(h)) = h
             \/ s \notin DOMAIN conversation_store']_vars

\* C25: whenever no call_gemini_api invocation is in progress (the calls are
\* made one after the other), totalCalls = successfulCalls + failedCalls; and
\* no step, those of eviction and of the sweep included, decreases any of the
\* three counters.
C25_CountersAddUp ==
    [][/\ (\A t \in Workers : pc'[t] \notin CallPcs)
             => api_call_count' = successful_calls' + failed_calls'
       /\ api_call_count' >= api_call_count
       /\ successful_calls' >= successful_calls
       /\ failed_calls' >= failed_calls]_vars

\* two calls, one of each outcome, and then an eviction
C25_Witness ==
    /\ api_call_count = 2
    /\ successful_calls = 1
    /\ failed_calls = 1
    /\ pc[SoleWorker] = "idle"
    /\ evicted["s1"]
    /\ Absent("s1")

\* C26: with no request, eviction or sweep in progress, every session id
\* that has stored turns or a stored instruction snapshot also has a
\* lastActivity entry, so that the sweep can evict it.
C26_StoredSessionsHaveActivity ==
    (pc[SoleWorker] = "idle" /\ pc[Sweeper] = "sleep")
        => \A s \in Sessions :
              (get_conversation_history(s) # <<>> \/ s \in DOMAIN system_instructions)
                  => s \in DOMAIN session_last_activity

CleanupPcs == {"cl_acq", "cl_instr", "cl_act"}

\* What the three session maps hold for session s
Entry(s) ==
    <<IF s \in DOMAIN conversation_store THEN <<conversation_store[s]>> ELSE <<>>,
      IF s \in DOMAIN system_instructions THEN <<system_instructions[s]>> ELSE <<>>,
      IF s \in DOMAIN session_last_activity THEN <<session_last_activity[s]>> ELSE <<>>>>

\* C27: a step of ask_question, store_conversation or cleanup_session for one
\* session leaves every other session's turns, snapshot and lastActivity
\* unchanged; a step of cleanup_session leaves the API counters unchanged,
\* and changes nothing when the id is unknown or already evicted.
C27_OtherSessionsUntouched ==
    [][\A t \in Workers :
          pc'[t] # pc[t]
              => /\ \A s \in Sessions \ {loc[t].sid} : Entry(s)' = Entry(s)
                 /\ pc[t] \in CleanupPcs
                       => /\ UNCHANGED stats
                          /\ Absent(loc[t].sid) => UNCHANGED store]_vars

\* s1 has been evicted, and evicted once more, while s2 keeps its turns, its
\* snapshot and its lastActivity
C27_Witness ==
    /\ Absent("s1")
    /\ evicted["s1"]
    /\ \E t \in Workers : pc[t] = "cl_act" /\ loc[t].sid = "s1"
    /\ get_conversation_history("s2") # <<>>
    /\ "s2" \in DOMAIN system_instructions
    /\ "s2" \in DOMAIN session_last_activity

====
